---- MODULE Spec2Model ----
(***************************************************************************)
(* Contour extraction ("meandering triangles") of salamivg:                *)
(* lib/algorithms/walking-triangles.ts, with array and map of lib/util.ts  *)
(* and Vector2.distanceTo of lib/vector2.ts.                               *)
(*                                                                         *)
(* JavaScript numbers are modelled as exact extended rationals <<n, d>>:   *)
(* d > 0 and gcd(n, d) = 1 for a finite value, <<1, 0>> and <<-1, 0>> for  *)
(* +Infinity and -Infinity, <<0, 0>> for NaN.  Rounding of IEEE doubles    *)
(* and the sign of zero are not modelled.                                  *)
(***************************************************************************)
EXTENDS Integers, Sequences, FiniteSets, TLC

(* ------------------------------ bounds --------------------------------- *)

\* longest triangle strip offered as a TIN in natural or reversed order
MaxStrip == 6
\* largest thresholdCount offered
MaxThresholdCount == 3
\* longest triangle strip offered in every order and orientation
MaxChain == 5

(* --------------------------- number arithmetic ------------------------- *)

Abs(i) == IF i < 0 THEN -i ELSE i

Sgn(i) == IF i < 0 THEN -1 ELSE IF i > 0 THEN 1 ELSE 0

RECURSIVE GCD(_, _)
GCD(a, b) == IF b = 0 THEN a ELSE GCD(b, a % b)

\* the number n/d; a zero denominator gives an infinity or NaN.  Here and
\* below a value that the code computes once and then uses several times is
\* bound once, as the element of a one-element set.
Num(n, d) ==
  IF d = 0 THEN <<Sgn(n), 0>>
  ELSE IF d = 1 THEN <<n, 1>>
  ELSE CHOOSE q \in {<<(Sgn(y) * x) \div GCD(Abs(x), Abs(y)),
                       (Sgn(y) * y) \div GCD(Abs(x), Abs(y))>> :
                       x \in {n}, y \in {d}} : TRUE

R(i) == <<i, 1>>

NaN == <<0, 0>>

Infinity == <<1, 0>>

IsNaN(a) == a = NaN

IsFinite(a) == a[2] # 0

RNeg(a) == <<-a[1], a[2]>>

\* a + b
RAdd(a, b) ==
  IF a[2] # 0 /\ b[2] # 0 THEN Num(a[1] * b[2] + b[1] * a[2], a[2] * b[2])
  ELSE IF IsNaN(a) \/ IsNaN(b) THEN NaN
  ELSE IF a[2] = 0 /\ b[2] = 0 THEN (IF a = b THEN a ELSE NaN)
  ELSE IF a[2] = 0 THEN a ELSE b

\* a - b
RSub(a, b) == RAdd(a, RNeg(b))

\* a * b
RMul(a, b) == Num(a[1] * b[1], a[2] * b[2])

\* 1 / b
RInv(b) ==
  IF b[2] = 0 THEN (IF b[1] = 0 THEN NaN ELSE R(0))
  ELSE IF b[1] = 0 THEN Infinity
  ELSE Num(b[2], b[1])

\* a / b
RDiv(a, b) == RMul(a, RInv(b))

\* a < b (false when either is NaN)
RLt(a, b) ==
  IF IsNaN(a) \/ IsNaN(b) THEN FALSE
  ELSE IF a[2] = 0 THEN a[1] < 0 /\ b # a
  ELSE IF b[2] = 0 THEN b[1] > 0
  ELSE a[1] * b[2] < b[1] * a[2]

\* a >= b (false when either is NaN)
RGe(a, b) == ~IsNaN(a) /\ ~IsNaN(b) /\ ~RLt(a, b)

\* Math.sqrt(s) <= n, for s a sum of squares
SqrtLe(s, n) == RGe(n, R(0)) /\ RGe(RMul(n, n), s)

\* Math.sqrt(s) < n, for s a sum of squares
SqrtLt(s, n) == RLt(R(0), n) /\ RLt(s, RMul(n, n))

(* ------------------------------ vectors -------------------------------- *)

vec2(x, y) == [x |-> x, y |-> y]

vec3(x, y, z) == [x |-> x, y |-> y, z |-> z]

\* isNear with <= in place of <
isNearInclusive(p1, p2, nearness) ==
  \E dx \in {RSub(p2.x, p1.x)}, dy \in {RSub(p2.y, p1.y)} :
    \/ SqrtLt(RAdd(RMul(dx, dx), RMul(dy, dy)), nearness)
    \/ /\ RGe(nearness, R(0))
       /\ RAdd(RMul(dx, dx), RMul(dy, dy)) = RMul(nearness, nearness)

\* Math.sqrt((other.x - this.x) ** 2 + (other.y - this.y) ** 2) < nearness
isNear(p1, p2, nearness) ==
  \E dx \in {RSub(p2.x, p1.x)}, dy \in {RSub(p2.y, p1.y)} :
    SqrtLt(RAdd(RMul(dx, dx), RMul(dy, dy)), nearness)

(* ------------------------------ lib/util ------------------------------- *)

\* array(n) = [0, 1, ..., n - 1]
array(n) == [i \in 1..n |-> i - 1]

\* new Array(n) throws a RangeError for a negative length, which array
\* catches and throws again as an Error
arrayThrows(n) == n < 0

map(beforeLeft, beforeRight, afterLeft, afterRight, value) ==
  LET db == RSub(beforeRight, beforeLeft)
      da == RSub(afterRight, afterLeft)
  IN  IF db # R(0)
      THEN RAdd(afterLeft, RMul(RDiv(RSub(value, beforeLeft), db), da))
      ELSE RAdd(afterLeft, RMul(RSub(value, beforeLeft), da))

(* ------------------------- walking-triangles --------------------------- *)

Null == [null |-> TRUE]

\* the thresholds spread over thresholdCount steps instead of thresholdCount - 1
genThresholdsOffByOne(count, lo, hi) ==
  LET idx == array(count)
  IN  [k \in 1..Len(idx) |-> map(R(0), R(count), lo, hi, R(idx[k]))]

\* the thresholds of contoursFromTIN
genThresholds(count, lo, hi) ==
  LET idx == array(count)
  IN  [k \in 1..Len(idx) |-> map(R(0), R(count - 1), lo, hi, R(idx[k]))]

\* the crossing point with the weights of the two vertices exchanged
crossingSwapped(vMin, vMax, threshold) ==
  LET howFar == RDiv(RSub(threshold, vMax.z), RSub(vMin.z, vMax.z))
      rest   == RSub(R(1), howFar)
  IN  vec2(RAdd(RMul(howFar, vMax.x), RMul(rest, vMin.x)),
           RAdd(RMul(howFar, vMax.y), RMul(rest, vMin.y)))

crossing(vMin, vMax, threshold) ==
  LET crossingPoint(howFar) ==
        vec2(RAdd(RMul(howFar, vMin.x), RMul(RSub(R(1), howFar), vMax.x)),
             RAdd(RMul(howFar, vMin.y), RMul(RSub(R(1), howFar), vMax.y)))
  IN  CHOOSE p \in {crossingPoint(howFar) :
                      howFar \in {RDiv(RSub(threshold, vMax.z),
                                       RSub(vMin.z, vMax.z))}} : TRUE

\* contourLine taking both points on the edge to the first majority vertex
contourLineOneEdge(vertices, threshold) ==
  LET below == SelectSeq(vertices, LAMBDA v : RLt(v.z, threshold))
      above == SelectSeq(vertices, LAMBDA v : RGe(v.z, threshold))
  IN  IF Len(above) = 0 \/ Len(below) = 0 THEN Null
      ELSE LET minority == IF Len(below) < Len(above) THEN below ELSE above
               majority == IF Len(below) > Len(above) THEN below ELSE above
           IN  [line |-> <<crossing(minority[1], majority[1], threshold),
                           crossing(minority[1], majority[1], threshold)>>,
                threshold |-> threshold]

\* contourLine with a vertex at the threshold counted as below it
contourLineInclusiveBelow(vertices, threshold) ==
  LET below == SelectSeq(vertices, LAMBDA v : ~IsNaN(v.z) /\ ~IsNaN(threshold)
                                                /\ ~RLt(threshold, v.z))
      above == SelectSeq(vertices, LAMBDA v : RLt(threshold, v.z))
  IN  IF Len(above) = 0 \/ Len(below) = 0 THEN Null
      ELSE LET minority == IF Len(below) < Len(above) THEN below ELSE above
               majority == IF Len(below) > Len(above) THEN below ELSE above
           IN  [line |-> <<crossing(minority[1], majority[1], threshold),
                           crossing(minority[1], majority[2], threshold)>>,
                threshold |-> threshold]

\* contourLine with the vertices split by their y instead of their z
contourLineByY(vertices, threshold) ==
  LET below == SelectSeq(vertices, LAMBDA v : RLt(v.y, threshold))
      above == SelectSeq(vertices, LAMBDA v : RGe(v.y, threshold))
  IN  IF Len(above) = 0 \/ Len(below) = 0 THEN Null
      ELSE LET minority == IF Len(below) < Len(above) THEN below ELSE above
               majority == IF Len(below) > Len(above) THEN below ELSE above
           IN  [line |-> <<crossing(minority[1], majority[1], threshold),
                           crossing(minority[1], majority[2], threshold)>>,
                threshold |-> threshold]

\* contourLine with the second crossing taken between the two majority
\* vertices
contourLineWithinMajority(vertices, threshold) ==
  LET below == SelectSeq(vertices, LAMBDA v : RLt(v.z, threshold))
      above == SelectSeq(vertices, LAMBDA v : RGe(v.z, threshold))
  IN  IF Len(above) = 0 \/ Len(below) = 0 THEN Null
      ELSE LET minority == IF Len(below) < Len(above) THEN below ELSE above
               majority == IF Len(below) > Len(above) THEN below ELSE above
           IN  [line |-> <<crossing(minority[1], majority[1], threshold),
                           crossing(majority[1], majority[2], threshold)>>,
                threshold |-> threshold]

contourLine(vertices, threshold) ==
  LET below == SelectSeq(vertices, LAMBDA v : RLt(v.z, threshold))
      above == SelectSeq(vertices, LAMBDA v : RGe(v.z, threshold))
  IN  IF Len(above) = 0 \/ Len(below) = 0 THEN Null
      ELSE LET minority == IF Len(below) < Len(above) THEN below ELSE above
               majority == IF Len(below) > Len(above) THEN below ELSE above
           IN  [line |-> <<crossing(minority[1], majority[1], threshold),
                           crossing(minority[1], majority[2], threshold)>>,
                threshold |-> threshold]

\* calcContour going through the triangles from the last to the first
calcContourBackwards(threshold, tin) ==
  LET all == [k \in 1..Len(tin) |->
                contourLine(tin[Len(tin) + 1 - k], threshold)]
  IN  SelectSeq(all, LAMBDA c : c # Null)

calcContour(threshold, tin) ==
  LET all == [k \in 1..Len(tin) |-> contourLine(tin[k], threshold)]
  IN  SelectSeq(all, LAMBDA c : c # Null)

(* ------------------- insertion-ordered Map<number, T[]> ---------------- *)

\* a Map that never finds a key it holds
KeyIndexNever(m, k) == 0

\* position of key k in the entry sequence m, 0 when m has no such key
KeyIndex(m, k) ==
  IF \E i \in 1..Len(m) : m[i].threshold = k
  THEN CHOOSE i \in 1..Len(m) :
         m[i].threshold = k /\ \A j \in 1..(i - 1) : m[j].threshold # k
  ELSE 0

Keys(m) == [i \in 1..Len(m) |-> m[i].threshold]

\* m.has(k) ? m.get(k).push(v) : m.set(k, [v])
PushOrSet(m, k, v) ==
  CHOOSE r \in {IF KeyIndex(entries, k) # 0
                THEN [entries EXCEPT ![KeyIndex(entries, k)].items =
                                       Append(@, v)]
                ELSE Append(entries, [threshold |-> k, items |-> <<v>>]) :
                  entries \in {m}} : TRUE

(* ------------------------------- inputs -------------------------------- *)

\* a strip of triangles between a row of vertices at height 0 and a row of
\* vertices at height 2; consecutive triangles share an edge
bottom(j) == vec3(R(4 * j), R(0), R(0))

top(j) == vec3(R(4 * j + 2), R(6), R(2))

StripTriangle(k) ==
  IF k % 2 = 1
  THEN LET m == (k - 1) \div 2 IN <<bottom(m), bottom(m + 1), top(m)>>
  ELSE LET m == (k - 2) \div 2 IN <<top(m), top(m + 1), bottom(m + 1)>>

\* the same triangle with its first two vertices exchanged
Flip(t) == <<t[2], t[1], t[3]>>

Reverse(s) == [i \in 1..Len(s) |-> s[Len(s) + 1 - i]]

Strip(n, flipOdd, flipEven) ==
  [k \in 1..n |->
     IF (k % 2 = 1 /\ flipOdd) \/ (k % 2 = 0 /\ flipEven)
     THEN Flip(StripTriangle(k)) ELSE StripTriangle(k)]

StripTins ==
  { IF rev THEN Reverse(Strip(n, fo, fe)) ELSE Strip(n, fo, fe) :
      n \in 0..MaxStrip, fo \in BOOLEAN, fe \in BOOLEAN, rev \in BOOLEAN }

ZLimits == {R(z) : z \in -1..3}

Nearnesses == {R(0), R(1), R(2)}

(* ------------------------------- state --------------------------------- *)

VARIABLES
  tin, thresholdCount, zMin, zMax, nearnessThreshold,  \* ContourParams
  thresholds,     \* contoursFromTIN: const thresholds
  segments,       \* contoursFromTIN: const segments (Contour[])
  contourMap,     \* connectContourSegments: Map threshold -> segments left
  contourLines,   \* connectContourSegments: Map threshold -> finished lines
  line,           \* connectContourSegments: the line being built
  ti, gi,         \* cursors of flatMap and of for..of
  finished,       \* every line declared complete, kept or not
  pc,
  runs,           \* number of the current call of contoursFromTIN
  first,          \* what the first call returned
  procs           \* the stitching of each threshold group run on its own

vars == <<tin, thresholdCount, zMin, zMax, nearnessThreshold, thresholds,
          segments, contourMap, contourLines, line, ti, gi, finished, pc,
          runs, first, procs>>

params == <<tin, thresholdCount, zMin, zMax, nearnessThreshold>>

calls == <<runs, first, procs>>

Start ==
  /\ thresholds = <<>>
  /\ segments = <<>>
  /\ contourMap = <<>>
  /\ contourLines = <<>>
  /\ line = <<>>
  /\ ti = 1 /\ gi = 1
  /\ finished = <<>>
  /\ pc = "thresholds"
  /\ runs = 1
  /\ first = <<>>
  /\ procs = <<>>

Init ==
  /\ tin \in StripTins
  /\ thresholdCount \in 1..MaxThresholdCount
  /\ zMin \in ZLimits
  /\ zMax \in ZLimits
  /\ nearnessThreshold \in Nearnesses
  /\ Start

(* ------------------------------ actions -------------------------------- *)

\* const thresholds = array(thresholdCount).map(...)
Thresholds ==
  /\ pc = "thresholds"
  /\ IF arrayThrows(thresholdCount)
     THEN /\ pc' = "threw"
          /\ UNCHANGED <<thresholds, segments, ti>>
     ELSE /\ thresholds' = genThresholds(thresholdCount, zMin, zMax)
          /\ segments' = <<>>
          /\ ti' = 1
          /\ pc' = "flatMap"
  /\ UNCHANGED <<params, calls, contourMap, contourLines, line,
                 gi, finished>>

\* the callback reversing the TIN in place before it maps it
CalcContourReversingTin ==
  /\ pc = "flatMap"
  /\ ti <= Len(thresholds)
  /\ tin' = Reverse(tin)
  /\ segments' = segments \o calcContour(thresholds[ti], Reverse(tin))
  /\ ti' = ti + 1
  /\ UNCHANGED <<thresholdCount, zMin, zMax, nearnessThreshold, calls,
                 thresholds, contourMap, contourLines, line, gi, finished, pc>>

\* one callback of thresholds.flatMap
CalcContour ==
  /\ pc = "flatMap"
  /\ ti <= Len(thresholds)
  /\ segments' = segments \o calcContour(thresholds[ti], tin)
  /\ ti' = ti + 1
  /\ UNCHANGED <<params, calls, thresholds, contourMap, contourLines, line,
                 gi, finished, pc>>

RECURSIVE partitionOneGroup(_, _, _)
\* the partition loop with every segment filed under the first threshold
partitionOneGroup(contours, m, i) ==
  IF i > Len(contours) THEN m
  ELSE partitionOneGroup(contours,
                         PushOrSet(m, contours[1].threshold, contours[i].line),
                         i + 1)

RECURSIVE partition(_, _, _)
\* the partition loop from its i-th iteration on, over the map m
partition(contours, m, i) ==
  IF i > Len(contours) THEN m
  ELSE partition(contours,
                 PushOrSet(m, contours[i].threshold, contours[i].line),
                 i + 1)

\* connectContourSegments keeping the result map of the previous call
PartitionKeepingLines ==
  /\ pc = "flatMap"
  /\ ti > Len(thresholds)
  /\ contourMap' = partition(segments, <<>>, 1)
  /\ gi' = 1
  /\ pc' = "while"
  /\ UNCHANGED <<params, calls, thresholds, segments, contourLines, line,
                 ti, finished>>

PartitionRejectingEmpty ==
  /\ pc = "flatMap"
  /\ ti > Len(thresholds)
  /\ IF segments = <<>>
     THEN /\ pc' = "threw"
          /\ UNCHANGED <<contourLines, contourMap, gi>>
     ELSE /\ contourLines' = <<>>
          /\ contourMap' = partition(segments, <<>>, 1)
          /\ gi' = 1
          /\ pc' = "while"
  /\ UNCHANGED <<params, calls, thresholds, segments, line, ti, finished>>

\* the call of connectContourSegments(segments, nearnessThreshold): the two
\* maps are created and the segments are partitioned by threshold
Partition ==
  /\ pc = "flatMap"
  /\ ti > Len(thresholds)
  /\ contourLines' = <<>>
  /\ contourMap' = partition(segments, <<>>, 1)
  /\ gi' = 1
  /\ pc' = "while"
  /\ UNCHANGED <<params, calls, thresholds, segments, line, ti, finished>>

\* the callback looking at the head of the line only
matchesHeadOnly(ln, segment, nearness) ==
  \/ isNear(ln[1], segment[1], nearness)
  \/ isNear(ln[1], segment[2], nearness)

\* the callback of findIndex
matches(ln, segment, nearness) ==
  \/ isNear(ln[1], segment[1], nearness)
  \/ isNear(ln[1], segment[2], nearness)
  \/ isNear(ln[Len(ln)], segment[1], nearness)
  \/ isNear(ln[Len(ln)], segment[2], nearness)

RECURSIVE firstFrom(_, _, _, _)
firstFrom(segs, ln, nearness, i) ==
  IF i > Len(segs) THEN 0
  ELSE IF matches(ln, segs[i], nearness) THEN i
  ELSE firstFrom(segs, ln, nearness, i + 1)

\* the index of the last matching segment instead of the first
findLastIndex(segs, ln, nearness) ==
  IF \E i \in 1..Len(segs) : matches(ln, segs[i], nearness)
  THEN CHOOSE i \in 1..Len(segs) :
         /\ matches(ln, segs[i], nearness)
         /\ \A j \in (i + 1)..Len(segs) : ~matches(ln, segs[j], nearness)
  ELSE 0

\* segments.findIndex(...) + 1, 0 when nothing matches
findIndex(segs, ln, nearness) == firstFrom(segs, ln, nearness, 1)

\* the join with the third case prepending instead of appending
joinedAllAtHead(ln, match, nearness) ==
  IF isNear(match[1], ln[1], nearness) THEN <<match[2]>> \o ln
  ELSE IF isNear(match[2], ln[1], nearness) THEN <<match[1]>> \o ln
  ELSE IF isNear(match[1], ln[Len(ln)], nearness) THEN <<match[2]>> \o ln
  ELSE IF isNear(match[2], ln[Len(ln)], nearness) THEN Append(ln, match[1])
  ELSE ln

\* the join with the two tail cases tested before the two head cases
joinedTailFirst(ln, match, nearness) ==
  IF isNear(match[1], ln[Len(ln)], nearness) THEN Append(ln, match[2])
  ELSE IF isNear(match[2], ln[Len(ln)], nearness) THEN Append(ln, match[1])
  ELSE IF isNear(match[1], ln[1], nearness) THEN <<match[2]>> \o ln
  ELSE IF isNear(match[2], ln[1], nearness) THEN <<match[1]>> \o ln
  ELSE ln

\* the join keeping both endpoints of the match
joinedBothPoints(ln, match, nearness) ==
  IF isNear(match[1], ln[1], nearness) THEN <<match[2], match[1]>> \o ln
  ELSE IF isNear(match[2], ln[1], nearness) THEN <<match[1], match[2]>> \o ln
  ELSE IF isNear(match[1], ln[Len(ln)], nearness) THEN ln \o match
  ELSE IF isNear(match[2], ln[Len(ln)], nearness)
    THEN ln \o <<match[2], match[1]>>
  ELSE ln

\* the join taking the near endpoint of the match instead of the other
joinedNearPoint(ln, match, nearness) ==
  IF isNear(match[1], ln[1], nearness) THEN <<match[1]>> \o ln
  ELSE IF isNear(match[2], ln[1], nearness) THEN <<match[2]>> \o ln
  ELSE IF isNear(match[1], ln[Len(ln)], nearness) THEN Append(ln, match[1])
  ELSE IF isNear(match[2], ln[Len(ln)], nearness) THEN Append(ln, match[2])
  ELSE ln

\* the line after the four cases of the join
joined(ln, match, nearness) ==
  IF isNear(match[1], ln[1], nearness) THEN <<match[2]>> \o ln
  ELSE IF isNear(match[2], ln[1], nearness) THEN <<match[1]>> \o ln
  ELSE IF isNear(match[1], ln[Len(ln)], nearness) THEN Append(ln, match[2])
  ELSE IF isNear(match[2], ln[Len(ln)], nearness) THEN Append(ln, match[1])
  ELSE ln

\* a splice removing nothing
spliceNothing(s, i) == s

\* segments.splice(i, 1)
splice(s, i) == [k \in 1..(Len(s) - 1) |-> IF k < i THEN s[k] ELSE s[k + 1]]

\* the seed taken from the front of the working list
Shift ==
  /\ pc = "while"
  /\ gi <= Len(contourMap)
  /\ Len(contourMap[gi].items) > 0
  /\ LET segs == contourMap[gi].items
     IN  /\ line' = segs[1]
         /\ contourMap' = [contourMap EXCEPT ![gi].items = Tail(segs)]
  /\ pc' = "search"
  /\ UNCHANGED <<params, calls, thresholds, segments, contourLines,
                 ti, gi, finished>>

\* segments.pop(): the current line is the last segment left
Pop ==
  /\ pc = "while"
  /\ gi <= Len(contourMap)
  /\ Len(contourMap[gi].items) > 0
  /\ LET segs == contourMap[gi].items
     IN  /\ line' = segs[Len(segs)]
         /\ contourMap' = [contourMap EXCEPT ![gi].items =
                             SubSeq(segs, 1, Len(segs) - 1)]
  /\ pc' = "search"
  /\ UNCHANGED <<params, calls, thresholds, segments, contourLines,
                 ti, gi, finished>>

\* a matching segment exists: the line grows, the segment is removed
Join ==
  /\ pc = "search"
  /\ LET segs == contourMap[gi].items
         i    == findIndex(segs, line, nearnessThreshold)
     IN  /\ i # 0
         /\ line' = joined(line, segs[i], nearnessThreshold)
         /\ contourMap' = [contourMap EXCEPT ![gi].items = splice(segs, i)]
  /\ UNCHANGED <<params, calls, thresholds, segments, contourLines,
                 ti, gi, finished, pc>>

\* the filter asking for more than 6 points
keepSix(lines, threshold, ln) ==
  IF Len(ln) > 6 THEN PushOrSet(lines, threshold, ln) ELSE lines

\* the filter letting a line of 5 points through
keepFive(lines, threshold, ln) ==
  IF Len(ln) > 4 THEN PushOrSet(lines, threshold, ln) ELSE lines

\* the key created for every complete line, kept or not
keepEagerKey(lines, threshold, ln) ==
  IF Len(ln) > 5 THEN PushOrSet(lines, threshold, ln)
  ELSE IF KeyIndex(lines, threshold) # 0 THEN lines
  ELSE Append(lines, [threshold |-> threshold, items |-> <<>>])

\* a new key put in front of the older keys
keepNewKeyFirst(lines, threshold, ln) ==
  IF Len(ln) <= 5 THEN lines
  ELSE IF KeyIndex(lines, threshold) # 0 THEN PushOrSet(lines, threshold, ln)
  ELSE <<[threshold |-> threshold, items |-> <<ln>>]>> \o lines

\* the lines kept after ln is complete
keep(lines, threshold, ln) ==
  IF Len(ln) > 5 THEN PushOrSet(lines, threshold, ln) ELSE lines

\* no matching segment exists: the line is complete
Complete ==
  /\ pc = "search"
  /\ findIndex(contourMap[gi].items, line, nearnessThreshold) = 0
  /\ contourLines' = keep(contourLines, contourMap[gi].threshold, line)
  /\ finished' = Append(finished,
                        [threshold |-> contourMap[gi].threshold,
                         line |-> line])
  /\ line' = <<>>
  /\ pc' = "while"
  /\ UNCHANGED <<params, calls, thresholds, segments, contourMap,
                 ti, gi>>

\* while (segments.length > 0) fails: next entry of contourMap
NextGroup ==
  /\ pc = "while"
  /\ gi <= Len(contourMap)
  /\ Len(contourMap[gi].items) = 0
  /\ gi' = gi + 1
  /\ UNCHANGED <<params, calls, thresholds, segments, contourMap, contourLines,
                 line, ti, finished, pc>>

\* return contourLines
Return ==
  /\ pc = "while"
  /\ gi > Len(contourMap)
  /\ pc' = "done"
  /\ UNCHANGED <<params, calls, thresholds, segments, contourMap, contourLines,
                 line, ti, gi, finished>>

Next ==
  \/ Thresholds
  \/ CalcContour
  \/ Partition
  \/ Pop
  \/ Join
  \/ Complete
  \/ NextGroup
  \/ Return

Spec == Init /\ [][Next]_vars

(* ----------------- a single triangle of any shape ---------------------- *)

TriPositions ==
  { <<vec2(R(0), R(0)), p2, p3>> :
      p2 \in {vec2(R(10), R(0)), vec2(R(0), R(0))},
      p3 \in {vec2(R(0), R(10)), vec2(R(10), R(0))} }

TriHeights == {R(0), R(5), R(10)}

Triangles ==
  { [k \in 1..3 |-> vec3(ps[k].x, ps[k].y, zs[k])] :
      ps \in TriPositions, zs \in [1..3 -> TriHeights] }

TriLimits == {R(-5), R(0), R(5), R(10)}

InitTri ==
  /\ tin \in {<<t>> : t \in Triangles}
  /\ thresholdCount \in 1..MaxThresholdCount
  /\ zMin \in TriLimits
  /\ zMax \in TriLimits
  /\ nearnessThreshold = R(1)
  /\ Start

SpecTri == InitTri /\ [][Next]_vars

(* ------------- a strip in every order and every orientation ------------ *)

Perms(n) == {f \in [1..n -> 1..n] : \A a, b \in 1..n : f[a] = f[b] => a = b}

Shuffled(n, perm, flips) ==
  [k \in 1..n |->
     IF flips[k] THEN Flip(StripTriangle(perm[k])) ELSE StripTriangle(perm[k])]

InitChain ==
  /\ \E n \in 1..MaxChain :
       \E perm \in Perms(n), flips \in [1..n -> BOOLEAN] :
         tin = Shuffled(n, perm, flips)
  /\ thresholdCount = 1
  /\ zMin = R(1)
  /\ zMax = R(1)
  /\ nearnessThreshold = R(2)
  /\ Start

SpecChain == InitChain /\ [][Next]_vars

(* ------------------ two calls with the same arguments ------------------ *)

\* the first call has returned; contoursFromTIN is called again
Again ==
  /\ pc = "done"
  /\ runs = 1
  /\ first' = contourLines
  /\ runs' = 2
  /\ finished' = <<>>
  /\ pc' = "thresholds"
  /\ UNCHANGED <<params, thresholds, segments, contourMap, contourLines,
                 line, ti, gi, procs>>

NextTwice == Next \/ Again

SpecTwice == Init /\ [][NextTwice]_vars

(* ------------------- the call running to its end ----------------------- *)

\* contoursFromTIN is synchronous code on one thread: once called, it runs
\* on while it has a step to take
InitFair ==
  /\ tin \in {Strip(n, FALSE, FALSE) : n \in 0..MaxStrip}
  /\ thresholdCount \in 1..2
  /\ zMin = R(1)
  /\ zMax \in {R(1), R(2)}
  /\ nearnessThreshold \in Nearnesses
  /\ Start

SpecFair == InitFair /\ [][Next]_vars /\ WF_vars(Next)

(* ------------- two calls, the second on a reordered TIN ---------------- *)

MaxPermuted == 5

Permuted(t, perm) == [k \in 1..Len(t) |-> t[perm[k]]]

InitPermuted ==
  /\ tin \in {Strip(n, FALSE, FALSE) : n \in 0..MaxPermuted}
  /\ thresholdCount \in 1..MaxThresholdCount
  /\ zMin = R(1)
  /\ zMax = R(2)
  /\ nearnessThreshold \in {R(1), R(2)}
  /\ Start

\* the first call has returned; contoursFromTIN is called with the same
\* triangles in another order
AgainPermuted ==
  /\ pc = "done"
  /\ runs = 1
  /\ \E perm \in Perms(Len(tin)) : tin' = Permuted(tin, perm)
  /\ first' = contourLines
  /\ runs' = 2
  /\ finished' = <<>>
  /\ pc' = "thresholds"
  /\ UNCHANGED <<thresholdCount, zMin, zMax, nearnessThreshold, thresholds,
                 segments, contourMap, contourLines, line, ti, gi, procs>>

NextPermuted == Next \/ AgainPermuted

SpecPermuted == InitPermuted /\ [][NextPermuted]_vars

(* -------- the threshold groups stitched by concurrent processes -------- *)

MaxProcs == 2

MaxProcStrip == 5

InitConcurrent ==
  /\ \E n \in 0..MaxProcStrip :
       tin \in {Strip(n, FALSE, FALSE), Reverse(Strip(n, FALSE, FALSE))}
  /\ thresholdCount \in 1..MaxProcs
  /\ zMin = Num(1, 2)
  /\ zMax = Num(3, 2)
  /\ nearnessThreshold \in {R(1), R(2)}
  /\ Start

\* every process works on the list of another process
listOfFirst(g) == 1

\* the working list of process g is the one of its own threshold group
listOf(g) == g

\* the sequential call has returned; the same threshold groups are given to
\* one process each, with its own working list, line and result
Fork ==
  /\ pc = "done"
  /\ procs = <<>>
  /\ segments # <<>>
  /\ LET groups == partition(segments, <<>>, 1)
     IN  procs' = [g \in 1..Len(groups) |->
                     [pc |-> "while", threshold |-> groups[g].threshold,
                      items |-> groups[g].items, line |-> <<>>,
                      lines |-> <<>>]]
  /\ UNCHANGED <<params, runs, first, thresholds, segments, contourMap,
                 contourLines, line, ti, gi, finished, pc>>

\* process g: const line = segments.pop()
PopOf(g) ==
  /\ procs[g].pc = "while"
  /\ Len(procs[listOf(g)].items) > 0
  /\ LET segs == procs[listOf(g)].items
     IN  procs' = [[procs EXCEPT ![listOf(g)].items =
                                   SubSeq(segs, 1, Len(segs) - 1)]
                     EXCEPT ![g].line = segs[Len(segs)], ![g].pc = "search"]
  /\ UNCHANGED <<params, runs, first, thresholds, segments, contourMap,
                 contourLines, line, ti, gi, finished, pc>>

\* process g: a matching segment exists
JoinOf(g) ==
  /\ procs[g].pc = "search"
  /\ LET segs == procs[listOf(g)].items
         i    == findIndex(segs, procs[g].line, nearnessThreshold)
     IN  /\ i # 0
         /\ procs' = [[procs EXCEPT ![listOf(g)].items = splice(segs, i)]
                        EXCEPT ![g].line =
                          joined(procs[g].line, segs[i], nearnessThreshold)]
  /\ UNCHANGED <<params, runs, first, thresholds, segments, contourMap,
                 contourLines, line, ti, gi, finished, pc>>

\* process g: no matching segment exists
CompleteOf(g) ==
  /\ procs[g].pc = "search"
  /\ findIndex(procs[listOf(g)].items, procs[g].line, nearnessThreshold) = 0
  /\ procs' = [procs EXCEPT
                 ![g].lines = keep(@, procs[g].threshold, procs[g].line),
                 ![g].line = <<>>,
                 ![g].pc = "while"]
  /\ UNCHANGED <<params, runs, first, thresholds, segments, contourMap,
                 contourLines, line, ti, gi, finished, pc>>

\* process g: while (segments.length > 0) fails
EndOf(g) ==
  /\ procs[g].pc = "while"
  /\ Len(procs[listOf(g)].items) = 0
  /\ procs' = [procs EXCEPT ![g].pc = "done"]
  /\ UNCHANGED <<params, runs, first, thresholds, segments, contourMap,
                 contourLines, line, ti, gi, finished, pc>>

Process(g) == PopOf(g) \/ JoinOf(g) \/ CompleteOf(g) \/ EndOf(g)

NextConcurrent ==
  \/ Next
  \/ Fork
  \/ \E g \in 1..Len(procs) : Process(g)

SpecConcurrent == InitConcurrent /\ [][NextConcurrent]_vars

(* ------------- a closed ring in every order and orientation ----------- *)

MaxRing == 5

\* the i-th point of the ring crossed at threshold 1
RingPoint(i) == vec2(R(4 * i), R(i * i))

\* a fan of k triangles around a summit of height 2 with its rim at height
\* 0: at threshold 1 triangle i is crossed from RingPoint(i) to the next
\* ring point, the last one back to RingPoint(1)
FanTriangle(k, i) ==
  <<vec3(R(0), R(0), R(2)),
    vec3(R(8 * i), R(2 * i * i), R(0)),
    vec3(R(8 * ((i % k) + 1)), R(2 * ((i % k) + 1) * ((i % k) + 1)), R(0))>>

Fan(k, perm, flips) ==
  [i \in 1..k |->
     IF flips[i] THEN Flip(FanTriangle(k, perm[i])) ELSE FanTriangle(k, perm[i])]

InitRing ==
  /\ \E k \in 1..MaxRing :
       \E perm \in Perms(k), flips \in [1..k -> BOOLEAN] :
         tin = Fan(k, perm, flips)
  /\ thresholdCount = 1
  /\ zMin = R(1)
  /\ zMax = R(1)
  /\ nearnessThreshold = R(4)
  /\ Start

SpecRing == InitRing /\ [][Next]_vars

(* ----------------- thresholds that all have one value ------------------ *)

MaxPooled == 6

MaxPooledStrip == 2

\* zMin = zMax: every generated threshold has the same value
InitPooled ==
  /\ \E n \in 0..MaxPooledStrip : \E flipOdd \in BOOLEAN, flipEven \in BOOLEAN :
       tin = Strip(n, flipOdd, flipEven)
  /\ thresholdCount \in 1..MaxPooled
  /\ zMin \in {R(1), R(2)}
  /\ zMax = zMin
  /\ nearnessThreshold \in {R(0), R(1), R(2), R(3)}
  /\ Start

SpecPooled == InitPooled /\ [][Next]_vars

(* --------------- arguments outside the input contract ------------------ *)

InitInvalid ==
  /\ tin \in {Strip(n, FALSE, FALSE) : n \in 0..MaxStrip}
  /\ thresholdCount \in -1..1
  /\ zMin \in {R(1), Infinity, RNeg(Infinity), NaN}
  /\ zMax \in {R(1), Infinity, RNeg(Infinity), NaN}
  /\ nearnessThreshold \in {R(-1), R(1)}
  /\ Start

SpecInvalid == InitInvalid /\ [][Next]_vars

(* ======================= properties of the code ======================== *)

\* a < b for finite numbers, by cross-multiplication
Less(a, b) == a[1] * b[2] < b[1] * a[2]

\* the finite number a is in lowest terms
Lowest(a) == a[2] > 0 /\ GCD(Abs(a[1]), a[2]) = 1

\* all three heights are on the same side of the threshold
SameSide(tri, th) ==
  \/ \A i \in 1..3 : Less(tri[i].z, th)
  \/ \A i \in 1..3 : ~Less(tri[i].z, th)

\* the (threshold index, triangle index) pairs already handled by flatMap
\* whose triangle crosses the threshold
CrossingPairs ==
  { kj \in (1..(ti - 1)) \X (1..Len(tin)) :
      ~SameSide(tin[kj[2]], thresholds[kj[1]]) }

\* C1: contourLine returns null exactly when the three heights are all below
\* the threshold or all at or above it, and one segment in every other case
C1_NullIffSameSide ==
  pc # "thresholds" =>
    /\ \A k \in 1..Len(thresholds) : \A j \in 1..Len(tin) :
         (contourLine(tin[j], thresholds[k]) = Null)
           <=> SameSide(tin[j], thresholds[k])
    /\ Len(segments) = Cardinality(CrossingPairs)

\* one triangle met a threshold equal to one of its heights without crossing
\* it, and crossed another threshold
C1_Witness ==
  /\ pc = "done"
  /\ Len(tin) = 1
  /\ \E k \in 1..Len(thresholds) :
       /\ SameSide(tin[1], thresholds[k])
       /\ \E i \in 1..3 : tin[1][i].z = thresholds[k]
  /\ \E k \in 1..Len(thresholds) :
       /\ ~SameSide(tin[1], thresholds[k])
       /\ \E i \in 1..3 : tin[1][i].z = thresholds[k]
  /\ Len(segments) = 1

\* index of the only vertex on its side of the threshold
MinorityIdx(tri, th) ==
  CHOOSE i \in 1..3 :
    \A j \in (1..3) \ {i} : Less(tri[j].z, th) # Less(tri[i].z, th)

\* index of the k-th of the two other vertices, in the triangle's order
MajorityIdx(tri, th, k) ==
  LET m == MinorityIdx(tri, th)
  IN  IF k = 1 THEN (IF m = 1 THEN 2 ELSE 1) ELSE (IF m = 3 THEN 2 ELSE 3)

\* p = t*m.xy + (1-t)*v.xy with t = (th - v.z)/(m.z - v.z) = tn/td,
\* 0 <= t <= 1, and the height interpolated at t is th
OnEdgeAt(p, m, v, th) ==
  LET tn == (th[1] * v.z[2] - v.z[1] * th[2]) * m.z[2]
      td == th[2] * (m.z[1] * v.z[2] - v.z[1] * m.z[2])
  IN  /\ td # 0
      /\ tn * td >= 0
      /\ Abs(tn) <= Abs(td)
      /\ Lowest(p.x) /\ Lowest(p.y)
      /\ p.x[1] * td * m.x[2] * v.x[2]
           = p.x[2] * (tn * m.x[1] * v.x[2] + (td - tn) * v.x[1] * m.x[2])
      /\ p.y[1] * td * m.y[2] * v.y[2]
           = p.y[2] * (tn * m.y[1] * v.y[2] + (td - tn) * v.y[1] * m.y[2])
      /\ th[2] * (tn * m.z[1] * v.z[2] + (td - tn) * v.z[1] * m.z[2])
           = td * th[1] * m.z[2] * v.z[2]

Worked ==
  <<vec3(R(0), R(0), R(0)), vec3(R(10), R(0), R(10)), vec3(R(0), R(10), R(10))>>

\* C2: a returned segment has 2 points, the k-th on the edge from the
\* minority vertex to the k-th majority vertex where the interpolated height
\* is the threshold; the worked triangle at 5 gives [(5,0),(0,5)]
C2_SegmentOnEdges ==
  (pc # "thresholds" /\ Len(tin) = 1) =>
    /\ \A n \in 1..Len(segments) :
         LET s  == segments[n]
             th == s.threshold
             m  == tin[1][MinorityIdx(tin[1], th)]
         IN  /\ ~SameSide(tin[1], th)
             /\ Len(s.line) = 2
             /\ \A k \in 1..2 :
                  OnEdgeAt(s.line[k], m, tin[1][MajorityIdx(tin[1], th, k)], th)
    /\ (tin = <<Worked>> /\ thresholds = <<R(5)>> /\ ti > 1) =>
         segments = << [line |-> <<vec2(R(5), R(0)), vec2(R(0), R(5))>>,
                        threshold |-> R(5)] >>

\* the worked triangle has been cut at threshold 5
C2_Witness ==
  /\ pc = "done"
  /\ tin = <<Worked>>
  /\ thresholds = <<R(5)>>
  /\ Len(segments) = 1

\* C3: thresholdCount thresholds, the i-th being
\* zMin + i*(zMax - zMin)/(thresholdCount - 1) for thresholdCount >= 2 (first
\* zMin, last zMax, ascending when zMin < zMax), and zMin alone for 1
C3_Thresholds ==
  pc # "thresholds" =>
    /\ Len(thresholds) = thresholdCount
    /\ thresholdCount = 1 => thresholds = <<zMin>>
    /\ thresholdCount >= 2 =>
         /\ \A i \in 0..(thresholdCount - 1) :
              LET th == thresholds[i + 1]
              IN  /\ Lowest(th)
                  /\ (th[1] * zMin[2] - zMin[1] * th[2]) * zMax[2]
                       * (thresholdCount - 1)
                     = i * (zMax[1] * zMin[2] - zMin[1] * zMax[2]) * th[2]
         /\ thresholds[1] = zMin
         /\ thresholds[thresholdCount] = zMax
         /\ Less(zMin, zMax) =>
              \A i \in 1..(thresholdCount - 1) :
                Less(thresholds[i], thresholds[i + 1])

\* three or more thresholds over an ascending range, one of them no integer
C3_Witness ==
  /\ pc = "done"
  /\ thresholdCount >= 3
  /\ Less(zMin, zMax)
  /\ \E i \in 1..Len(thresholds) : thresholds[i][2] > 1

Range(q) == {q[i] : i \in 1..Len(q)}

\* C4: every polyline of the result has more than 5 points
C4_MoreThanFivePoints ==
  \A g \in 1..Len(contourLines) :
    \A n \in 1..Len(contourLines[g].items) :
      Len(contourLines[g].items[n]) > 5

\* a line of 5 points and a line of 6 points have been completed
C4_Witness ==
  /\ pc = "done"
  /\ \E f \in Range(finished) : Len(f.line) = 5
  /\ \E f \in Range(finished) : Len(f.line) = 6
  /\ Len(contourLines) > 0

\* the points of the contour of the strip at height 1
ChainPoint(i) == vec2(R(2 * i - 1), R(3))

ChainPoints(k) == [i \in 1..(k + 1) |-> ChainPoint(i)]

\* the segments are, in some order and orientation, the k links of the chain
\* pts, whose points are pairwise at distance >= nearness > 0
IsOpenChain(contours, pts, nearness) ==
  /\ Len(pts) = Len(contours) + 1
  /\ Less(R(0), nearness)
  /\ \A i \in 1..Len(pts) : \A j \in (i + 1)..Len(pts) :
       ~isNear(pts[i], pts[j], nearness)
  /\ \A i \in 1..Len(contours) : Len(contours[i].line) = 2
  /\ {{c.line[1], c.line[2]} : c \in Range(contours)}
       = {{pts[i], pts[i + 1]} : i \in 1..Len(contours)}
  /\ Cardinality({c.line : c \in Range(contours)}) = Len(contours)

\* ln is a run of consecutive points of pts
IsRunOf(ln, pts) ==
  \E a \in 1..Len(pts) :
    /\ a + Len(ln) - 1 <= Len(pts)
    /\ ln = SubSeq(pts, a, a + Len(ln) - 1)

\* C5: a threshold group that is one open chain of k segments is stitched,
\* whatever the order and orientation of the segments, into exactly one line
\* of the k+1 chain points in chain order, kept iff k >= 5
C5_OpenChainOneLine ==
  LET k   == Len(segments)
      pts == ChainPoints(k)
  IN  (pc \in {"search", "done"} /\ k >= 1
       /\ IsOpenChain(segments, pts, nearnessThreshold)) =>
        /\ pc = "search" =>
             IsRunOf(line, pts) \/ IsRunOf(line, Reverse(pts))
        /\ pc = "done" =>
             /\ Len(finished) = 1
             /\ finished[1].line \in {pts, Reverse(pts)}
             /\ k <= 4 => contourLines = <<>>
             /\ k >= 5 => contourLines =
                            << [threshold |-> thresholds[1],
                                items |-> <<finished[1].line>>] >>

\* a chain of 5 segments given middle segment first has been stitched
C5_Witness ==
  /\ pc = "done"
  /\ Len(segments) = 5
  /\ IsOpenChain(segments, ChainPoints(5), nearnessThreshold)
  /\ segments[1].line = <<ChainPoint(4), ChainPoint(3)>>
  /\ segments[5].line = <<ChainPoint(1), ChainPoint(2)>>
  /\ Len(contourLines) = 1

\* the end points of the segments tagged with threshold t
Endpoints(t) ==
  UNION { {c.line[1], c.line[2]} : c \in {d \in Range(segments) : d.threshold = t} }

\* C6: working lists and lines of threshold t are made of segments tagged t
\* only, also when a segment of another threshold is within nearness
C6_ThresholdIsolation ==
  pc \in {"while", "search", "done"} =>
    /\ \A g \in 1..Len(contourMap) :
         \A n \in 1..Len(contourMap[g].items) :
           \E c \in Range(segments) :
             /\ c.threshold = contourMap[g].threshold
             /\ c.line = contourMap[g].items[n]
    /\ pc = "search" =>
         Range(line) \subseteq Endpoints(contourMap[gi].threshold)
    /\ \A g \in 1..Len(contourLines) :
         \A n \in 1..Len(contourLines[g].items) :
           Range(contourLines[g].items[n])
             \subseteq Endpoints(contourLines[g].threshold)

\* a line is complete while a segment of another threshold, still waiting in
\* its own working list, is within nearness of one of its ends
C6_Witness ==
  /\ pc = "search"
  /\ findIndex(contourMap[gi].items, line, nearnessThreshold) = 0
  /\ Len(line) > 5
  /\ \E g \in (gi + 1)..Len(contourMap) :
       /\ findIndex(contourMap[g].items, line, nearnessThreshold) # 0
       /\ Endpoints(contourMap[g].threshold)
            \cap Endpoints(contourMap[gi].threshold) = {}

\* C7: no key of the result has an empty list; a threshold is a key iff a
\* line of more than 5 points was completed for it
C7_NoEmptyEntries ==
  /\ \A g \in 1..Len(contourLines) : Len(contourLines[g].items) > 0
  /\ \A g, h \in 1..Len(contourLines) :
       contourLines[g].threshold = contourLines[h].threshold => g = h
  /\ Range(Keys(contourLines))
       = {f.threshold : f \in {e \in Range(finished) : Len(e.line) > 5}}

\* one threshold lost all its lines and is no key, another one is a key
C7_Witness ==
  /\ pc = "done"
  /\ Len(contourLines) > 0
  /\ \E f \in Range(finished) : KeyIndex(contourLines, f.threshold) = 0

\* t is above every height of the TIN, or below every height of the TIN
OutOfRange(t) ==
  \/ \A j \in 1..Len(tin) : \A i \in 1..3 : Less(tin[j][i].z, t)
  \/ \A j \in 1..Len(tin) : \A i \in 1..3 : Less(t, tin[j][i].z)

\* C8: a threshold above the highest or below the lowest height of the TIN
\* has no segment and is no key of the result
C8_OutOfRangeThreshold ==
  pc # "thresholds" =>
    \A k \in 1..Len(thresholds) :
      OutOfRange(thresholds[k]) =>
        /\ \A c \in Range(segments) : c.threshold # thresholds[k]
        /\ KeyIndex(contourMap, thresholds[k]) = 0
        /\ KeyIndex(contourLines, thresholds[k]) = 0

\* a threshold above and a threshold inside the heights of a TIN that has a
\* contour
C8_Witness ==
  /\ pc = "done"
  /\ Len(tin) > 0
  /\ \E k \in 1..Len(thresholds) :
       \A j \in 1..Len(tin) : \A i \in 1..3 : Less(tin[j][i].z, thresholds[k])
  /\ Len(contourLines) > 0

RECURSIVE IsSubseq(_, _)
\* a is b with some elements left out
IsSubseq(a, b) ==
  IF Len(a) = 0 THEN TRUE
  ELSE IF Len(b) = 0 THEN FALSE
  ELSE IF Head(a) = Head(b) THEN IsSubseq(Tail(a), Tail(b))
  ELSE IsSubseq(a, Tail(b))

\* C9: the keys of the result are in threshold generation order
C9_KeysInGenerationOrder ==
  pc \in {"while", "search", "done"} =>
    /\ IsSubseq(Keys(contourLines), thresholds)
    /\ Less(zMin, zMax) =>
         \A g \in 1..(Len(contourLines) - 1) :
           Less(contourLines[g].threshold, contourLines[g + 1].threshold)

\* a descending range: the first threshold is no key, the two others are
\* keys in the order of their generation
C9_Witness ==
  /\ pc = "done"
  /\ Less(zMax, zMin)
  /\ Len(thresholds) = 3
  /\ Len(contourLines) = 2
  /\ contourLines[1].threshold = thresholds[2]
  /\ contourLines[2].threshold = thresholds[3]

InvalidConfiguration ==
  \/ thresholdCount < 1
  \/ ~IsFinite(zMin)
  \/ ~IsFinite(zMax)
  \/ (IsFinite(nearnessThreshold) /\ Less(nearnessThreshold, R(0)))

\* C11: for thresholdCount < 1, a non-finite zMin or zMax or a negative
\* nearnessThreshold the call ends in an error before any intersection or
\* stitching, and never returns a map
C11_InvalidConfigurationRejected ==
  InvalidConfiguration => pc \in {"thresholds", "threw"}

\* C12: the same triangles in any other order give the same threshold keys
\* and, for each key, the same polylines
C12_TinOrderIrrelevant ==
  (runs = 2 /\ pc = "done") =>
    /\ Range(Keys(contourLines)) = Range(Keys(first))
    /\ \A a \in 1..Len(contourLines), b \in 1..Len(first) :
         contourLines[a].threshold = first[b].threshold =>
           Range(contourLines[a].items) = Range(first[b].items)

\* no triangle of the TIN is crossed by any of the thresholds asked for
NothingCrosses ==
  \A i \in 1..Len(tin), k \in 0..(thresholdCount - 1) :
    SameSide(tin[i], map(R(0), R(thresholdCount - 1), zMin, zMax, R(k)))

\* C13: for an empty TIN, or a TIN that no threshold crosses, the call
\* raises no error, finds no segment, starts no line, and the map it builds
\* and returns is empty
C13_NothingToContour ==
  NothingCrosses =>
    /\ pc # "threw"
    /\ segments = <<>>
    /\ contourLines = <<>>
    /\ line = <<>>

\* a TIN with triangles, none of them crossed, and the call has returned
C13_Witness ==
  /\ Len(tin) > 0
  /\ NothingCrosses
  /\ pc = "done"
  /\ contourLines = <<>>

\* the segments left in the working lists of groups g and above
RECURSIVE Waiting(_, _)
Waiting(m, g) ==
  IF g > Len(m) THEN 0 ELSE Len(m[g].items) + Waiting(m, g + 1)

\* C14: every pass of the inner loop completes the line or takes one segment
\* off the working list, every pass of the outer loop pops one segment, and
\* the call comes to its end with every working list empty
C14_StitcherTerminates ==
  /\ [][/\ pc = "search" =>
            \/ pc' = "while" /\ Len(finished') = Len(finished) + 1
            \/ pc' = "search" /\ Waiting(contourMap', 1) = Waiting(contourMap, 1) - 1
        /\ (pc = "while" /\ pc' = "search") =>
            Waiting(contourMap', 1) = Waiting(contourMap, 1) - 1]_vars
  /\ <>(pc = "done" /\ Waiting(contourMap, 1) = 0)

\* the call has ended after popping several seeds and joining some segments
C14_Witness ==
  /\ pc = "done"
  /\ Len(finished) >= 2
  /\ \E i \in 1..Len(finished) : Len(finished[i].line) > 2
  /\ Waiting(contourMap, 1) = 0

\* the points p and q, of finite coordinates, are less than n apart
Closer(p, q, n) ==
  LET xn == p.x[1] * q.x[2] - q.x[1] * p.x[2]
      xd == p.x[2] * q.x[2]
      yn == p.y[1] * q.y[2] - q.y[1] * p.y[2]
      yd == p.y[2] * q.y[2]
  IN  /\ n[1] > 0
      /\ (xn * xn * yd * yd + yn * yn * xd * xd) * n[2] * n[2]
           < n[1] * n[1] * xd * xd * yd * yd

\* segment s has an endpoint less than n away from an end of the line ln
Touches(s, ln, n) ==
  \E e \in 1..2 : Closer(s[e], ln[1], n) \/ Closer(s[e], ln[Len(ln)], n)

\* C15: at the step that declares a line complete, kept or dropped, no
\* segment left in the working list of its threshold has an endpoint less
\* than nearness away from the first or the last point of the line
C15_CompleteLinesAreMaximal ==
  [][Len(finished') = Len(finished) + 1 =>
       \A k \in 1..Len(contourMap[gi].items) :
         ~Touches(contourMap[gi].items[k], line, nearnessThreshold)]_vars

\* a line of several segments has just been completed while segments of
\* its threshold are still waiting
C15_Witness ==
  /\ pc = "while"
  /\ Len(finished) >= 1
  /\ gi <= Len(contourMap)
  /\ finished[Len(finished)].threshold = contourMap[gi].threshold
  /\ Len(finished[Len(finished)].line) > 2
  /\ Len(contourMap[gi].items) > 0
  /\ Less(R(0), nearnessThreshold)

\* every threshold that a call on one triangle can generate
TriThresholds ==
  {map(R(0), R(c - 1), lo, hi, R(k)) :
     c \in 1..MaxThresholdCount, lo \in TriLimits, hi \in TriLimits,
     k \in 0..(MaxThresholdCount - 1)}

Without(s, i) == SubSeq(s, 1, i - 1) \o SubSeq(s, i + 1, Len(s))

\* the points p and q, of finite coordinates, are exactly n apart
Apart(p, q, n) ==
  LET xn == p.x[1] * q.x[2] - q.x[1] * p.x[2]
      xd == p.x[2] * q.x[2]
      yn == p.y[1] * q.y[2] - q.y[1] * p.y[2]
      yd == p.y[2] * q.y[2]
  IN  /\ n[1] >= 0
      /\ (xn * xn * yd * yd + yn * yn * xd * xd) * n[2] * n[2]
           = n[1] * n[1] * xd * xd * yd * yd

Nearer(p, q, r, s) ==
  LET sq(a, b) ==
        LET xn == a.x[1] * b.x[2] - b.x[1] * a.x[2]
            xd == a.x[2] * b.x[2]
            yn == a.y[1] * b.y[2] - b.y[1] * a.y[2]
            yd == a.y[2] * b.y[2]
        IN  <<xn * xn * yd * yd + yn * yn * xd * xd, xd * xd * yd * yd>>
  IN  sq(p, q)[1] * sq(r, s)[2] < sq(r, s)[1] * sq(p, q)[2]

\* the ends of the line ln
Ends(ln) == {ln[1], ln[Len(ln)]}

\* C18: the segment taken by a join is the one of lowest index, in the
\* working list as it is at that step, among the segments with an endpoint
\* less than nearness away from an end of the line
C18_FirstMatchWins ==
  [][(pc = "search" /\ Len(line') = Len(line) + 1) =>
       LET items == contourMap[gi].items
       IN  /\ \E i \in 1..Len(items) : Touches(items[i], line, nearnessThreshold)
           /\ contourMap'[gi].items =
                Without(items,
                        CHOOSE i \in 1..Len(items) :
                          /\ Touches(items[i], line, nearnessThreshold)
                          /\ \A j \in 1..(i - 1) :
                               ~Touches(items[j], line, nearnessThreshold)
                       )]_vars

\* after a join, two waiting segments match the line and the one of lower
\* index is the farther of the two
C18_Witness ==
  /\ pc = "search"
  /\ Len(line) > 2
  /\ \E i, j \in 1..Len(contourMap[gi].items) :
       LET a == contourMap[gi].items[i]
           b == contourMap[gi].items[j]
       IN  /\ i < j
           /\ Touches(a, line, nearnessThreshold)
           /\ Touches(b, line, nearnessThreshold)
           /\ \A k \in 1..(i - 1) :
                ~Touches(contourMap[gi].items[k], line, nearnessThreshold)
           /\ \E e \in 1..2, q \in Ends(line) :
                \A f \in 1..2, r \in Ends(line) : Nearer(b[e], q, a[f], r)

\* the line ln after taking the segment m: the endpoint of m near the line
\* is dropped and the other one is put in front when an endpoint of m is
\* near the head, at the end when one is near the tail only; m[1] is looked
\* at before m[2]
Merged(ln, m, n) ==
  IF Closer(m[1], ln[1], n) THEN <<m[2]>> \o ln
  ELSE IF Closer(m[2], ln[1], n) THEN <<m[1]>> \o ln
  ELSE IF Closer(m[1], ln[Len(ln)], n) THEN ln \o <<m[2]>>
  ELSE ln \o <<m[1]>>

\* C19: a join puts the far endpoint of the matched segment in front of the
\* line when the match is near the head and at its end when it is near the
\* tail only, head before tail and first endpoint before second; the points
\* the line had stay as they were, in their order
C19_MergeRule ==
  [][(pc = "search" /\ Len(line') = Len(line) + 1) =>
       \E i \in 1..Len(contourMap[gi].items) :
         /\ contourMap'[gi].items = Without(contourMap[gi].items, i)
         /\ line' = Merged(line, contourMap[gi].items[i], nearnessThreshold)
         /\ \/ SubSeq(line', 2, Len(line')) = line
            \/ SubSeq(line', 1, Len(line)) = line]_vars

\* after a join, the segment that will be taken next is near the head of
\* the line by its second endpoint only, and near the tail as well
C19_Witness ==
  /\ pc = "search"
  /\ Len(line) > 2
  /\ \E i \in 1..Len(contourMap[gi].items) :
       LET m == contourMap[gi].items[i]
       IN  /\ \A k \in 1..(i - 1) :
                ~Touches(contourMap[gi].items[k], line, nearnessThreshold)
           /\ ~Closer(m[1], line[1], nearnessThreshold)
           /\ Closer(m[2], line[1], nearnessThreshold)
           /\ \/ Closer(m[1], line[Len(line)], nearnessThreshold)
              \/ Closer(m[2], line[Len(line)], nearnessThreshold)

\* the segments used by the lines from the i-th on of fin that belong to
\* threshold th: a line of n points counts for n - 1
RECURSIVE Used(_, _, _)
Used(fin, th, i) ==
  IF i > Len(fin) THEN 0
  ELSE (IF fin[i].threshold = th THEN Len(fin[i].line) - 1 ELSE 0)
         + Used(fin, th, i + 1)

\* C20: a join adds one point to the line and takes one segment off the
\* working list; at any time the segments waiting in a group plus those
\* used by its current line and by its completed lines, kept or dropped,
\* are the segments the group started with; a kept line has used at least 5
C20_SegmentAccounting ==
  /\ [](pc \in {"while", "search", "done"} =>
          /\ \A g \in 1..Len(contourMap) :
               Len(contourMap[g].items)
                 + Used(finished, contourMap[g].threshold, 1)
                 + (IF pc = "search" /\ gi = g THEN Len(line) - 1 ELSE 0)
               = Cardinality({n \in 1..Len(segments) :
                                segments[n].threshold = contourMap[g].threshold})
          /\ \A k \in 1..Len(contourLines) :
               \A n \in 1..Len(contourLines[k].items) :
                 Len(contourLines[k].items[n]) - 1 >= 5)
  /\ [][(pc = "search" /\ pc' = "search") =>
          /\ Len(line') = Len(line) + 1
          /\ Len(contourMap'[gi].items) = Len(contourMap[gi].items) - 1
          /\ \A g \in 1..Len(contourMap) :
               g # gi => contourMap'[g] = contourMap[g]]_vars

\* a line built from at least 5 segments has been kept and another line of
\* the same group is being built
C20_Witness ==
  /\ pc = "search"
  /\ Len(line) >= 2
  /\ \E i \in 1..Len(finished) :
       /\ finished[i].threshold = contourMap[gi].threshold
       /\ Len(finished[i].line) > 5

\* the crossing pairs that come before the pair kj, thresholds first and
\* triangles in TIN order within a threshold
PairsBefore(kj) ==
  {q \in CrossingPairs : q[1] < kj[1] \/ (q[1] = kj[1] /\ q[2] < kj[2])}

\* C21: the flat collection holds one segment for each pair of a threshold
\* index and a triangle crossed by that threshold and nothing else, all
\* segments of one threshold before those of the next, in TIN order within a
\* threshold, each tagged with the threshold that produced it (after each
\* callback of the flatMap, the last of which hands it to the stitcher)
C21_FlatSegmentsThresholdMajor ==
  pc = "flatMap" =>
    /\ Len(segments) = Cardinality(CrossingPairs)
    /\ \A kj \in CrossingPairs :
         LET n == Cardinality(PairsBefore(kj)) + 1
         IN  /\ segments[n].threshold = thresholds[kj[1]]
             /\ segments[n].line =
                  contourLine(tin[kj[2]], thresholds[kj[1]]).line

\* the stitcher was handed the segments of two distinct thresholds, each
\* crossing several triangles, while a third threshold crossed none
C21_Witness ==
  /\ pc = "done"
  /\ \E a, b, c \in 1..Len(thresholds) :
       /\ a < b
       /\ thresholds[a] # thresholds[b]
       /\ Cardinality({kj \in CrossingPairs : kj[1] = a}) >= 2
       /\ Cardinality({kj \in CrossingPairs : kj[1] = b}) >= 2
       /\ {kj \in CrossingPairs : kj[1] = c} = {}

\* the entries of the map m under the key k
Under(m, k) == SelectSeq(m, LAMBDA e : e.threshold = k)

C23_InputUnchanged ==
  [][tin' = tin /\ params' = params]_vars

\* a call on several triangles has gone through the stitcher and returned
\* a polyline
C23_Witness ==
  /\ pc = "done"
  /\ Len(tin) >= 2
  /\ Len(finished) >= 2
  /\ contourLines # <<>>

\* no two consecutive points of ln are equal
NoRepeat(ln) == \A k \in 1..(Len(ln) - 1) : ln[k] # ln[k + 1]

\* C24: no two consecutive points of a line built by the stitcher are
\* equal, while it is built and when it is complete
C24_NoEqualConsecutivePoints ==
  /\ pc = "search" => NoRepeat(line)
  /\ \A k \in 1..Len(finished) : NoRepeat(finished[k].line)

Fits(p, q, s, n) ==
  \E e \in 1..2 :
    \/ p = s[e] /\ (q = s[3 - e] \/ Closer(q, s[3 - e], n))
    \/ q = s[e] /\ (p = s[3 - e] \/ Closer(p, s[3 - e], n))

\* the pairs of consecutive points of ln from the k-th on can be given
\* distinct segments of threshold th, none of them in used, that they fit
RECURSIVE Assignable(_, _, _, _)
Assignable(ln, th, k, used) ==
  \/ k >= Len(ln)
  \/ \E j \in (1..Len(segments)) \ used :
       /\ segments[j].threshold = th
       /\ Fits(ln[k], ln[k + 1], segments[j].line, nearnessThreshold)
       /\ Assignable(ln, th, k + 1, used \cup {j})

\* C26: the pairs of consecutive points of a line built for a threshold can
\* be given, one to one, distinct input segments of that threshold such that
\* one point of the pair is an endpoint of the segment and the other is the
\* other endpoint or less than nearness away from it (every line built is
\* at some time the current line)
C26_LineFollowsSegments ==
  pc = "search" => Assignable(line, contourMap[gi].threshold, 1, {})

\* the current line has several points, one of them not an endpoint of the
\* segment that its pair is given
C26_Witness ==
  /\ pc = "search"
  /\ Len(line) > 3
  /\ \E k \in 1..(Len(line) - 1) :
       \A j \in 1..Len(segments) :
         {line[k], line[k + 1]} # {segments[j].line[1], segments[j].line[2]}

\* the contours are the k segments of one closed ring through the points
\* RingPoint(1..k), which are nearness or more apart from one another
IsRing(contours, k, nearness) ==
  /\ Len(contours) = k
  /\ Less(R(0), nearness)
  /\ \A i \in 1..k : \A j \in (i + 1)..k :
       ~Closer(RingPoint(i), RingPoint(j), nearness)
  /\ \A i \in 1..k : \E n \in 1..k :
       {contours[n].line[1], contours[n].line[2]}
         = {RingPoint(i), RingPoint((i % k) + 1)}
  /\ \A n \in 1..k : \E i \in 1..k :
       {contours[n].line[1], contours[n].line[2]}
         = {RingPoint(i), RingPoint((i % k) + 1)}

\* C27: a threshold group that is one closed ring of k segments is stitched,
\* whatever the order and orientation of the segments, into a single line of
\* k + 1 points that ends where it starts; it is kept for k >= 5 and no
\* polyline is returned for k <= 4
C27_ClosedRingOneLine ==
  LET k == Len(segments)
  IN  (pc = "done" /\ k >= 1 /\ IsRing(segments, k, nearnessThreshold)) =>
        /\ Len(finished) = 1
        /\ Len(finished[1].line) = k + 1
        /\ finished[1].line[1] = finished[1].line[k + 1]
        /\ {finished[1].line[i] : i \in 1..k} = {RingPoint(i) : i \in 1..k}
        /\ k >= 5 => contourLines = << [threshold |-> thresholds[1],
                                        items |-> <<finished[1].line>>] >>
        /\ k <= 4 => contourLines = <<>>

\* a ring of 5 segments given out of ring order has been stitched and kept
C27_Witness ==
  /\ pc = "done"
  /\ Len(segments) = 5
  /\ IsRing(segments, 5, nearnessThreshold)
  /\ segments[1].line[1] = RingPoint(3)
  /\ segments[2].line[2] = RingPoint(1)
  /\ contourLines # <<>>

\* the segment of the last triangle of the TIN crossed at threshold th
LastCrossing(th) ==
  LET crossed == {t \in 1..Len(tin) : contourLine(tin[t], th) # Null}
      last    == CHOOSE t \in crossed : \A u \in crossed : u <= t
  IN  contourLine(tin[last], th).line

\* the complete lines of threshold th with more than 5 points, in the order
\* in which they were completed, which is the order of their seeds
KeptOf(th) ==
  LET pick(f) == f.threshold = th /\ Len(f.line) > 5
      rows    == SelectSeq(finished, pick)
  IN  [n \in 1..Len(rows) |-> rows[n].line]

\* C28: the seed of each new line is the last element of the working list of
\* its threshold, which loses it; the first seed of a threshold is the
\* segment of the last triangle of the TIN crossed at that threshold; the
\* polylines of a threshold are returned in the order of their seeds
C28_SeedIsLastOfWorkingList ==
  /\ [][(pc = "while" /\ pc' = "search") =>
          LET segs == contourMap[gi].items
              th   == contourMap[gi].threshold
          IN  /\ line' = segs[Len(segs)]
              /\ contourMap'[gi].items = SubSeq(segs, 1, Len(segs) - 1)
              /\ (\A n \in 1..Len(finished) : finished[n].threshold # th)
                   => line' = LastCrossing(th)]_vars
  /\ [](\A n \in 1..Len(contourLines) :
          contourLines[n].items = KeptOf(contourLines[n].threshold))

\* a second seed of a threshold has been popped from a working list of two
\* or more segments, after a first line of that threshold was kept
C28_Witness ==
  /\ pc = "search"
  /\ Len(line) = 2
  /\ Len(contourMap[gi].items) >= 1
  /\ \E n \in 1..Len(contourLines) :
       contourLines[n].threshold = contourMap[gi].threshold

\* how many times the two endpoints of segment s follow one another in ln
PairCount(ln, s) ==
  Cardinality({k \in 1..(Len(ln) - 1) : {ln[k], ln[k + 1]} = {s[1], s[2]}})

\* how many of the contours are segment s
Copies(contours, s) ==
  Cardinality({j \in 1..Len(contours) : contours[j].line = s})

\* all the copies of every segment lie in one complete line
CopiesTogether ==
  \A j \in 1..Len(segments) :
    \E n \in 1..Len(finished) :
      PairCount(finished[n].line, segments[j].line)
        >= Copies(segments, segments[j].line)

\* the triangles of the TIN crossed at threshold th
Crossed(th) == {t \in 1..Len(tin) : contourLine(tin[t], th) # Null}

\* one group and at most one key; thresholdCount copies of the segment of
\* every crossed triangle and nothing else
Pooled ==
  /\ Len(contourMap) <= 1
  /\ Len(contourLines) <= 1
  /\ Len(segments) = thresholdCount * Cardinality(Crossed(zMin))
  /\ \A t \in Crossed(zMin) :
       Copies(segments, contourLine(tin[t], zMin).line) >= thresholdCount
  /\ \A j \in 1..Len(segments) :
       \E t \in Crossed(zMin) : segments[j] = contourLine(tin[t], zMin)

\* one crossed triangle whose segment has its endpoints nearness or more
\* apart: a line of thresholdCount + 1 points going to and fro between the
\* endpoints, returned for thresholdCount >= 5 only
ToAndFro ==
  \A t \in Crossed(zMin) :
    LET s == contourLine(tin[t], zMin).line
    IN  (/\ Crossed(zMin) = {t}
         /\ Less(R(0), nearnessThreshold)
         /\ ~Closer(s[1], s[2], nearnessThreshold)) =>
          /\ thresholdCount <= 4 => contourLines = <<>>
          /\ thresholdCount >= 5 =>
               /\ Len(contourLines) = 1
               /\ contourLines[1].threshold = zMin
               /\ Len(contourLines[1].items) = 1
               /\ LET ln == contourLines[1].items[1]
                  IN  /\ Len(ln) = thresholdCount + 1
                      /\ {ln[1], ln[2]} = {s[1], s[2]}
                      /\ \A k \in 1..(Len(ln) - 2) : ln[k + 2] = ln[k]

\* no complete line is a single segment left on its own
NoLoneSegment == \A n \in 1..Len(finished) : Len(finished[n].line) >= 3

NotCollinear(tri) ==
  RSub(RMul(RSub(tri[2].x, tri[1].x), RSub(tri[3].y, tri[1].y)),
       RMul(RSub(tri[3].x, tri[1].x), RSub(tri[2].y, tri[1].y))) # R(0)

\* the interpolation fraction of contourLine
HowFar(vMin, vMax, threshold) ==
  RDiv(RSub(threshold, vMax.z), RSub(vMin.z, vMax.z))

\* the vertices of tri at or above th
AtOrAbove(tri, th) == {i \in 1..3 : RGe(tri[i].z, th)}

\* C30: for a triangle that is not collinear in the x-y plane the two points
\* of the segment are equal exactly when a single vertex is at or above the
\* threshold and its height is the threshold; both fractions are then 1 and
\* both points are that vertex; in every other crossing case they differ
C30_ZeroLengthIffVertexAtThreshold ==
  (pc # "thresholds" /\ Len(tin) = 1 /\ NotCollinear(tin[1])) =>
    \A n \in 1..Len(segments) :
      LET s  == segments[n]
          th == s.threshold
          m  == tin[1][MinorityIdx(tin[1], th)]
          single == \E i \in 1..3 : /\ AtOrAbove(tin[1], th) = {i}
                                    /\ tin[1][i].z = th
      IN  /\ (s.line[1] = s.line[2]) <=> single
          /\ single =>
               \A k \in 1..2 :
                 /\ HowFar(m, tin[1][MajorityIdx(tin[1], th, k)], th) = R(1)
                 /\ s.line[k] = vec2(m.x, m.y)
                 /\ AtOrAbove(tin[1], th) = {MinorityIdx(tin[1], th)}

\* one run has cut a proper triangle into a zero-length segment at the
\* height of its summit and into a segment of two points lower down
C30_Witness ==
  /\ pc = "done"
  /\ Len(tin) = 1
  /\ NotCollinear(tin[1])
  /\ \E n \in 1..Len(segments) : segments[n].line[1] = segments[n].line[2]
  /\ \E n \in 1..Len(segments) :
       /\ segments[n].line[1] # segments[n].line[2]
       /\ Cardinality(AtOrAbove(tin[1], segments[n].threshold)) = 1
  /\ \E n \in 1..Len(segments) :
       /\ Cardinality(AtOrAbove(tin[1], segments[n].threshold)) = 2
       /\ \E i \in 1..3 : tin[1][i].z = segments[n].threshold

TypeOK ==
  pc \in {"thresholds", "threw", "flatMap", "while", "search", "done"}

====
